---- MODULE Spec2Model ----
(***************************************************************************)
(* Model of mqtt_to_grbl.py: the text-to-G-code compiler (textToGcode),    *)
(* the GRBL session driver (send_gcode, init_grbl), the MQTT payload       *)
(* handler (on_message) and the start-up sequence (__main__).              *)
(*                                                                         *)
(* Time is counted in tenths of a second: every delay of the source        *)
(* (0.1, 1.1, 2.0, 5.0, 19 s) is a whole number of tenths.  Coordinates    *)
(* are whole millimetres and are printed with "%.2f" as the source does.   *)
(* Byte strings and text are TLA+ strings; the character "~" stands for a  *)
(* byte that is not valid UTF-8.                                           *)
(***************************************************************************)
EXTENDS Integers, Sequences, FiniteSets, TLC

\* ------------------------------------------------------------------ bounds
\* longest payload text, in characters
MaxText == 2
\* longest text given to the compiler alone, in characters
MaxCompText == 3
\* most instructions in the template of the glyph that is varied
MaxInstrs == 2

\* ------------------------------------------------- configuration constants
LINE_LENGTH == 100
LINE_SPACING == 8
PADDING == 2

\* ----------------------------------------------------- timing, in tenths
\* send_gcode(command, timeout=2.0)
DEFAULT_TIMEOUT == 20
\* send_gcode(cmd, timeout=5.0) in init_grbl
INIT_TIMEOUT == 50
\* time.sleep(1.1) after every non-empty response line
LINE_SLEEP == 11
\* serial.Serial(..., timeout=0.1): the longest one readline() blocks
READ_TIMEOUT == 1
\* time.sleep(19) before the write of 'M04'
M04_SLEEP == 190

\* ------------------------------------------------------- python str helpers
IsSpace(c) == c \in {" ", "\n", "\r", "\t"}

RECURSIVE lstrip(_)
lstrip(s) == IF Len(s) > 0 /\ IsSpace(Head(s)) THEN lstrip(Tail(s)) ELSE s

RECURSIVE rstrip(_)
rstrip(s) ==
    IF Len(s) > 0 /\ IsSpace(SubSeq(s, Len(s), Len(s)))
    THEN rstrip(SubSeq(s, 1, Len(s) - 1))
    ELSE s

\* str.strip()
strip(s) == rstrip(lstrip(s))

\* str.startswith(prefix)
startswith(s, prefix) ==
    Len(s) >= Len(prefix) /\ SubSeq(s, 1, Len(prefix)) = prefix

\* str.endswith(suffix)
endswith(s, suffix) ==
    Len(s) >= Len(suffix) /\ SubSeq(s, Len(s) - Len(suffix) + 1, Len(s)) = suffix

\* bytes.decode('utf-8', errors='ignore'): undecodable bytes are dropped
RECURSIVE decode_ignore(_)
decode_ignore(b) ==
    IF Len(b) = 0 THEN ""
    ELSE IF Head(b) = "~" THEN decode_ignore(Tail(b))
    ELSE Head(b) \o decode_ignore(Tail(b))

\* does bytes.decode('utf-8') succeed (no UnicodeDecodeError)
RECURSIVE decodable(_)
decodable(b) ==
    IF Len(b) = 0 THEN TRUE
    ELSE Head(b) # "~" /\ decodable(Tail(b))

\* str.split('\n'): a sequence of strings, one more than the line breaks
RECURSIVE split(_)
split(s) ==
    IF Len(s) = 0 THEN << "" >>
    ELSE LET rest == split(Tail(s))
         IN  IF Head(s) = "\n" THEN << "" >> \o rest
             ELSE << Head(s) \o rest[1] >> \o Tail(rest)

\* "%.2f" % v for a whole number v
Fmt2(v) == IF v < 0 THEN "-" \o ToString(-v) \o ".00" ELSE ToString(v) \o ".00"

\* ------------------------------------------------------------ glyph table
\* Instr(type, x, y)
Instr(type, x, y) == [type |-> type, x |-> x, y |-> y]

RECURSIVE MaxX(_)
MaxX(instrs) ==
    IF Len(instrs) = 1 THEN instrs[1].x
    ELSE LET m == MaxX(Tail(instrs))
         IN  IF instrs[1].x > m THEN instrs[1].x ELSE m

RECURSIVE MinX(_)
MinX(instrs) ==
    IF Len(instrs) = 1 THEN instrs[1].x
    ELSE LET m == MinX(Tail(instrs))
         IN  IF instrs[1].x < m THEN instrs[1].x ELSE m

\* Letter(data): the instructions of a template and width = max(x) - min(x)
Letter(instrs) ==
    [instructions |-> instrs,
     width |-> IF Len(instrs) > 0 THEN MaxX(instrs) - MinX(instrs) ELSE 0]

\* the template directory: A is two draws, I is a move, a draw, a move back
TemplateFiles ==
    [c \in {"A", "I"} |->
        IF c = "A"
        THEN << Instr("write", 0, 0), Instr("write", 5, 10) >>
        ELSE << Instr("move", 1, 0), Instr("write", 1, 10), Instr("move", 0, 0) >>]

\* readLetters(directory) when the directory exists
readLetters ==
    [c \in {" ", "\n"} \cup DOMAIN TemplateFiles |->
        IF c = " " THEN [instructions |-> << >>, width |-> 4]
        ELSE IF c = "\n" THEN [instructions |-> << >>, width |-> 1000000]
        ELSE Letter(TemplateFiles[c])]

\* ----------------------------------------------------------- textToGcode
\* the compiler state: output, current_x, current_y, pen_is_down
\* variant: the compiler starts where a one-glyph payload would have left it
CompilerStartCarriedOver ==
    [output |-> << >>, current_x |-> 7, current_y |-> 0, pen_is_down |-> TRUE]

CompilerStart ==
    [output |-> << >>, current_x |-> 0, current_y |-> 0, pen_is_down |-> FALSE]

\* variant: a move inside a glyph leaves the pen where it is
InstrStepMoveKeepsPen(st, instr) ==
    LET x == st.current_x + instr.x
        y == st.current_y + instr.y
    IN  IF instr.type = "move"
        THEN [st EXCEPT
                !.output = @ \o << "G0 F1500.0 X" \o Fmt2(x) \o " Y" \o Fmt2(y) >>]
        ELSE [st EXCEPT
                !.output = (IF ~st.pen_is_down THEN @ \o << "M03 S150" >> ELSE @)
                           \o << "G1 F1500.0 X" \o Fmt2(x) \o " Y" \o Fmt2(y) >>,
                !.pen_is_down = TRUE]

\* variant: a draw never lowers the pen
InstrStepNoPenDown(st, instr) ==
    LET x == st.current_x + instr.x
        y == st.current_y + instr.y
    IN  IF instr.type = "move"
        THEN [st EXCEPT
                !.output = (IF st.pen_is_down THEN @ \o << "M05 F1500.0" >> ELSE @)
                           \o << "G0 F1500.0 X" \o Fmt2(x) \o " Y" \o Fmt2(y) >>,
                !.pen_is_down = FALSE]
        ELSE [st EXCEPT
                !.output = @ \o << "G1 F1500.0 X" \o Fmt2(x) \o " Y" \o Fmt2(y) >>]

\* variant: the pen is lowered before every draw, whatever its state
InstrStepAlwaysPenDown(st, instr) ==
    LET x == st.current_x + instr.x
        y == st.current_y + instr.y
    IN  IF instr.type = "move"
        THEN [st EXCEPT
                !.output = (IF st.pen_is_down THEN @ \o << "M05 F1500.0" >> ELSE @)
                           \o << "G0 F1500.0 X" \o Fmt2(x) \o " Y" \o Fmt2(y) >>,
                !.pen_is_down = FALSE]
        ELSE [st EXCEPT
                !.output = @ \o << "M03 S150",
                                   "G1 F1500.0 X" \o Fmt2(x) \o " Y" \o Fmt2(y) >>,
                !.pen_is_down = TRUE]

\* one instruction of a glyph (the body of "for instr in ...")
InstrStep(st, instr) ==
    LET x == st.current_x + instr.x
        y == st.current_y + instr.y
    IN  IF instr.type = "move"
        THEN [st EXCEPT
                !.output = (IF st.pen_is_down THEN @ \o << "M05 F1500.0" >> ELSE @)
                           \o << "G0 F1500.0 X" \o Fmt2(x) \o " Y" \o Fmt2(y) >>,
                !.pen_is_down = FALSE]
        ELSE [st EXCEPT
                !.output = (IF ~st.pen_is_down THEN @ \o << "M03 S150" >> ELSE @)
                           \o << "G1 F1500.0 X" \o Fmt2(x) \o " Y" \o Fmt2(y) >>,
                !.pen_is_down = TRUE]

\* variant: the first instruction of a glyph is passed over
RECURSIVE InstrLoopSkipsFirst(_, _)
InstrLoopSkipsFirst(st, instrs) ==
    IF Len(instrs) = 0 THEN st
    ELSE IF Len(instrs) = 1 THEN InstrStep(st, Head(instrs))
    ELSE InstrLoopSkipsFirst(st, Tail(instrs))

RECURSIVE InstrLoop(_, _)
InstrLoop(st, instrs) ==
    IF Len(instrs) = 0 THEN st
    ELSE InstrLoop(InstrStep(st, Head(instrs)), Tail(instrs))

\* variant: a character without a glyph still advances the cursor
CharStepAbsentAdvances(st, char, letters, padding) ==
    IF char \in DOMAIN letters
    THEN LET letter_data == letters[char]
         IN  IF Len(letter_data.instructions) = 0
             THEN [st EXCEPT
                     !.current_x = @ + letter_data.width + padding,
                     !.output = IF st.pen_is_down THEN @ \o << "M05" >> ELSE @,
                     !.pen_is_down = FALSE]
             ELSE LET drawn == InstrLoop([st EXCEPT !.pen_is_down = FALSE],
                                         letter_data.instructions)
                      up == [drawn EXCEPT
                               !.output = IF drawn.pen_is_down
                                          THEN @ \o << "M05 F1500.0" >> ELSE @,
                               !.pen_is_down = FALSE]
                      nx == up.current_x + letter_data.width + padding
                  IN  [up EXCEPT
                         !.current_x = nx,
                         !.output = @ \o << "G0 F1000.0 X" \o Fmt2(nx)
                                            \o " Y" \o Fmt2(up.current_y) >>]
    ELSE [st EXCEPT !.current_x = @ + padding]

\* variant: a glyph without instructions also emits the rapid advance
CharStepSpaceAdvances(st, char, letters, padding) ==
    IF char \in DOMAIN letters
    THEN LET letter_data == letters[char]
             drawn == InstrLoop([st EXCEPT !.pen_is_down = FALSE],
                                letter_data.instructions)
             up == [drawn EXCEPT
                      !.output = IF drawn.pen_is_down
                                 THEN @ \o << "M05 F1500.0" >> ELSE @,
                      !.pen_is_down = FALSE]
             nx == up.current_x + letter_data.width + padding
         IN  [up EXCEPT
                !.current_x = nx,
                !.output = @ \o << "G0 F1000.0 X" \o Fmt2(nx)
                                   \o " Y" \o Fmt2(up.current_y) >>]
    ELSE st

\* variant: the pen is not raised after the last instruction of a glyph
CharStepNoPenUp(st, char, letters, padding) ==
    IF char \in DOMAIN letters
    THEN LET letter_data == letters[char]
         IN  IF Len(letter_data.instructions) = 0
             THEN [st EXCEPT
                     !.current_x = @ + letter_data.width + padding,
                     !.output = IF st.pen_is_down THEN @ \o << "M05" >> ELSE @,
                     !.pen_is_down = FALSE]
             ELSE LET drawn == InstrLoop([st EXCEPT !.pen_is_down = FALSE],
                                         letter_data.instructions)
                      nx == drawn.current_x + letter_data.width + padding
                  IN  [drawn EXCEPT
                         !.current_x = nx,
                         !.output = @ \o << "G0 F1000.0 X" \o Fmt2(nx)
                                            \o " Y" \o Fmt2(drawn.current_y) >>]
    ELSE st

\* one character of a line (the body of "for char in line_text")
CharStep(st, char, letters, padding) ==
    IF char \in DOMAIN letters
    THEN LET letter_data == letters[char]
         IN  IF Len(letter_data.instructions) = 0
             THEN [st EXCEPT
                     !.current_x = @ + letter_data.width + padding,
                     !.output = IF st.pen_is_down THEN @ \o << "M05" >> ELSE @,
                     !.pen_is_down = FALSE]
             ELSE LET drawn == InstrLoop([st EXCEPT !.pen_is_down = FALSE],
                                         letter_data.instructions)
                      up == [drawn EXCEPT
                               !.output = IF drawn.pen_is_down
                                          THEN @ \o << "M05 F1500.0" >> ELSE @,
                               !.pen_is_down = FALSE]
                      nx == up.current_x + letter_data.width + padding
                  IN  [up EXCEPT
                         !.current_x = nx,
                         !.output = @ \o << "G0 F1000.0 X" \o Fmt2(nx)
                                            \o " Y" \o Fmt2(up.current_y) >>]
    ELSE st

RECURSIVE CharLoop(_, _, _, _)
CharLoop(st, line_text, letters, padding) ==
    IF Len(line_text) = 0 THEN st
    ELSE CharLoop(CharStep(st, Head(line_text), letters, padding),
                  Tail(line_text), letters, padding)

\* variant: the start of a line keeps the cursor x of the line before
NewLineKeepsX(st, line_spacing) ==
    LET y == st.current_y - line_spacing
    IN  [st EXCEPT
           !.current_y = y,
           !.output = (IF st.pen_is_down THEN @ \o << "M05" >> ELSE @)
                      \o << "G0 F1500 X" \o Fmt2(st.current_x) \o " Y" \o Fmt2(y),
                             "M04", "M05" >>,
           !.pen_is_down = FALSE]

\* the start of every line but the first
NewLine(st, line_spacing) ==
    LET y == st.current_y - line_spacing
    IN  [st EXCEPT
           !.current_y = y,
           !.current_x = 0,
           !.output = (IF st.pen_is_down THEN @ \o << "M05" >> ELSE @)
                      \o << "G0 F1500 X" \o Fmt2(0) \o " Y" \o Fmt2(y), "M04", "M05" >>,
           !.pen_is_down = FALSE]

RECURSIVE LineLoop(_, _, _, _, _, _)
LineLoop(st, lines, first_line, letters, line_spacing, padding) ==
    IF Len(lines) = 0 THEN st
    ELSE LET st1 == IF ~first_line THEN NewLine(st, line_spacing) ELSE st
         IN  LineLoop(CharLoop(st1, Head(lines), letters, padding),
                      Tail(lines), FALSE, letters, line_spacing, padding)

textToGcodeState(text, letters, line_length, line_spacing, padding) ==
    LineLoop(CompilerStart, split(text), TRUE, letters, line_spacing, padding)

textToGcode(text, letters, line_length, line_spacing, padding) ==
    textToGcodeState(text, letters, line_length, line_spacing, padding).output

\* ------------------------------------------------------------ environment
\* the characters of the payloads: a glyph with strokes, the space, whose
\* glyph has none, and the line break
Alphabet == {"A", " ", "\n"}

\* the texts of at most n characters over the payload alphabet
RECURSIVE Texts(_)
Texts(n) ==
    IF n = 0 THEN {""}
    ELSE LET shorter == Texts(n - 1)
         IN  shorter \cup {t \o c : t \in shorter, c \in Alphabet}

\* msg.payload: a text, or bytes that are not UTF-8
Payloads == Texts(MaxText) \cup {"~"}

\* what ser.readline() can return when data arrived: two lines that decode
\* and strip to the acknowledge token, an error line, and a line that is
\* neither although it starts like the one and contains the other
RawLines == {"ok\r\n", " o~k\n", "error:9\r\n", "okay error:9\r\n"}

\* ------------------------------------------------------------------ state
VARIABLES
    pc,              \* position of the single thread of execution
    exitReason,      \* which sys.exit(1) ended the process, "" while running
    SERIAL_PORT,     \* config['grbl']['serial_port'], "None" when absent
    letters,         \* the global glyph table
    ser,             \* the global serial object: "None" or "Open"
    port,            \* the device file: "absent", "open" or "closed"
    ctx,             \* the caller of init_grbl: "startup" or "message"
    initIdx,         \* position in init_commands
    initResult,      \* the value init_grbl last returned in the running
                     \* handler: "True", "False", or "none" before it returns
    text_payload,    \* on_message: the decoded payload
    gcode_lines,     \* on_message: the compiled program
    idx,             \* on_message: position of the for loop
    success,         \* on_message: the success flag
    hret,            \* on_message: the return statement that ended it
    caller,          \* the caller of send_gcode: "init", "prog" or "post"
    command,         \* send_gcode: the command
    timeout,         \* send_gcode: the timeout
    elapsed,         \* send_gcode: time.time() - start_time
    response_buffer, \* send_gcode: the bytes read so far
    slept,           \* send_gcode: the sleep taken before the write
    ret,             \* the tuple send_gcode last returned
    log,             \* the send_gcode calls of the running handler: command,
                     \* caller and result ("pending", "True" or "False")
    wire,            \* the bytes written to the device in the running handler
    lastEnd,         \* how send_gcode ended for the command last written:
                     \* "none", "pending", "line", "timeout" or "exception"
    halted           \* the handler before the running one stopped its program
                     \* at a command that was not acknowledged

mainVars == << pc, exitReason, SERIAL_PORT, letters >>
serVars == << ser, port >>
initVars == << ctx, initIdx, initResult >>
msgVars == << text_payload, gcode_lines, idx, success, hret >>
sendVars == << caller, command, timeout, elapsed, response_buffer, slept, ret >>
histVars == << log, wire, lastEnd >>
vars == << mainVars, serVars, initVars, msgVars, sendVars, histVars, halted >>

NoRet == [ok |-> FALSE, response |-> "none"]

Init ==
    /\ pc = "config"
    /\ exitReason = ""
    /\ SERIAL_PORT = "None"
    /\ letters = << >>
    /\ ser = "None"
    /\ port = "absent"
    /\ ctx = "startup"
    /\ initIdx = 0
    /\ initResult = "none"
    /\ text_payload = ""
    /\ gcode_lines = << >>
    /\ idx = 0
    /\ success = TRUE
    /\ hret = "none"
    /\ caller = "none"
    /\ command = ""
    /\ timeout = 0
    /\ elapsed = 0
    /\ response_buffer = ""
    /\ slept = 0
    /\ ret = NoRet
    /\ log = << >>
    /\ wire = << >>
    /\ lastEnd = "none"
    /\ halted = FALSE

\* ------------------------------------------------------------- start-up
\* load_config() and the constants read from it
LoadConfig ==
    /\ pc = "config"
    /\ \E loaded \in BOOLEAN :
          IF loaded
          THEN /\ \E p \in {"None", "/dev/ttyUSB0"} : SERIAL_PORT' = p
               /\ pc' = "letters"
               /\ UNCHANGED exitReason
          ELSE /\ pc' = "exited"
               /\ exitReason' = "config"
               /\ UNCHANGED SERIAL_PORT
    /\ UNCHANGED << letters, serVars, initVars, msgVars, sendVars, histVars >>
    /\ UNCHANGED halted

\* letters = readLetters(GCODE_DIR); exit when the directory is missing
LoadLetters ==
    /\ pc = "letters"
    /\ \E isdir \in BOOLEAN :
          IF isdir
          THEN /\ letters' = readLetters
               /\ pc' = "init"
               /\ UNCHANGED exitReason
          ELSE /\ pc' = "exited"
               /\ exitReason' = "letters"
               /\ UNCHANGED letters
    /\ UNCHANGED << SERIAL_PORT, serVars, initVars, msgVars, sendVars, histVars >>
    /\ UNCHANGED halted

\* ------------------------------------------------------------ send_gcode
\* "if ser and ser.is_open"
SerIsOpen(s) == s = "Open"

\* variant: every pen and line-advance directive takes the pause
PreWriteSleepAnyM0(cmd) == IF startswith(cmd, "M0") THEN M04_SLEEP ELSE 0

\* the pause before the write: 19 s for 'M04', none otherwise
PreWriteSleep(cmd) == IF cmd = "M04" THEN M04_SLEEP ELSE 0

\* the first element of the tuple returned on a terminal line
\* variant: every terminal line counts as an acknowledgement
IsAckAlways(decoded_line) == TRUE

\* "decoded_line == 'ok'"
IsAck(decoded_line) == decoded_line = "ok"

\* variant: a line that only starts with the acknowledge token ends the wait
IsTerminalByPrefix(decoded_line) ==
    startswith(decoded_line, "ok") \/ startswith(decoded_line, "error:")

\* "decoded_line == 'ok' or decoded_line.startswith('error:')"
IsTerminal(decoded_line) ==
    decoded_line = "ok" \/ startswith(decoded_line, "error:")

\* variant: the wait ends as soon as the timeout is reached
TimedOutEarly(time_waited, limit) == time_waited >= limit

\* "time.time() - start_time > timeout"
TimedOut(time_waited, limit) == time_waited > limit

\* variant: the bypass branch reports a failure
BypassReturnFalse == [ok |-> FALSE, response |-> "Printed_to_console"]

\* the return of the bypass branch
BypassReturn == [ok |-> TRUE, response |-> "Printed_to_console"]

\* the return of the except branch: (False, str(e))
ExceptReturn == [ok |-> FALSE, response |-> "exception"]

\* the locals of a finished send_gcode call and the tuple it returned are
\* dropped once the caller has tested the result
Discard ==
    /\ elapsed' = 0
    /\ response_buffer' = ""
    /\ ret' = NoRet

\* a call of send_gcode(cmd, tmo) from the place named who
CallSend(cmd, tmo, who) ==
    /\ pc' = "send"
    /\ caller' = who
    /\ command' = cmd
    /\ timeout' = tmo
    /\ log' = Append(log, [cmd |-> cmd, from |-> who, ok |-> "pending"])

\* send_gcode returns r to its caller
SendReturn(r) ==
    /\ ret' = r
    /\ log' = [log EXCEPT ![Len(log)].ok = IF r.ok THEN "True" ELSE "False"]
    /\ pc' = CASE caller = "init" -> "init_ret"
               [] caller = "prog" -> "prog_ret"
               [] OTHER -> "post_ret"

\* the serial port is not open: the command is printed
SendBypass ==
    /\ pc = "send"
    /\ ~SerIsOpen(ser)
    /\ SendReturn(BypassReturn)
    /\ UNCHANGED << exitReason, SERIAL_PORT, letters, serVars, initVars, msgVars,
                    caller, command, timeout, elapsed, response_buffer, slept,
                    wire, lastEnd >>
    /\ UNCHANGED halted

\* ser.write(command + '\n'); ser.flush(); start_time = time.time()
SendWrite ==
    /\ pc = "send"
    /\ SerIsOpen(ser)
    /\ slept' = PreWriteSleep(command)
    /\ wire' = Append(wire, command \o "\n")
    /\ elapsed' = 0
    /\ response_buffer' = ""
    /\ lastEnd' = "pending"
    /\ pc' = "send_read"
    /\ UNCHANGED << exitReason, SERIAL_PORT, letters, serVars, initVars, msgVars,
                    caller, command, timeout, ret, log >>
    /\ UNCHANGED halted

\* ser.write or ser.flush raises: nothing, or the command, went out
SendWriteFails ==
    /\ pc = "send"
    /\ SerIsOpen(ser)
    /\ slept' = PreWriteSleep(command)
    /\ \E written \in BOOLEAN :
          IF written
          THEN /\ wire' = Append(wire, command \o "\n")
               /\ lastEnd' = "exception"
          ELSE UNCHANGED << wire, lastEnd >>
    /\ SendReturn(ExceptReturn)
    /\ UNCHANGED << exitReason, SERIAL_PORT, letters, serVars, initVars, msgVars,
                    caller, command, timeout, elapsed, response_buffer >>
    /\ UNCHANGED halted

\* variant: a line that does not end the wait restarts the clock and the
\* buffer
SendReadRestartsClock ==
    /\ pc = "send_read"
    /\ \E line \in RawLines \cup {""}, wait \in 0 .. READ_TIMEOUT :
          LET decoded_line == strip(decode_ignore(line))
              buffer == response_buffer \o line
              now == IF line # "" THEN elapsed + wait + LINE_SLEEP
                     ELSE elapsed + READ_TIMEOUT
          IN  /\ line = "" => wait = READ_TIMEOUT
              /\ IF line # "" /\ IsTerminal(decoded_line)
                 THEN /\ SendReturn([ok |-> IsAck(decoded_line),
                                     response |-> decoded_line])
                      /\ lastEnd' = "line"
                      /\ response_buffer' = buffer
                      /\ elapsed' = now
                 ELSE IF line # ""
                 THEN /\ response_buffer' = line
                      /\ elapsed' = 0
                      /\ UNCHANGED << pc, ret, log, lastEnd >>
                 ELSE IF TimedOut(now, timeout)
                 THEN /\ SendReturn([ok |-> FALSE,
                                     response |-> strip(decode_ignore(buffer))])
                      /\ lastEnd' = "timeout"
                      /\ response_buffer' = buffer
                      /\ elapsed' = now
                 ELSE /\ response_buffer' = buffer
                      /\ elapsed' = now
                      /\ UNCHANGED << pc, ret, log, lastEnd >>
    /\ UNCHANGED << exitReason, SERIAL_PORT, letters, serVars, initVars, msgVars,
                    caller, command, timeout, slept, wire >>
    /\ UNCHANGED halted

\* one turn of the "while True" loop: line = ser.readline() and the two tests
SendRead ==
    /\ pc = "send_read"
    /\ \E line \in RawLines \cup {""}, wait \in 0 .. READ_TIMEOUT :
          LET decoded_line == strip(decode_ignore(line))
              buffer == response_buffer \o line
              now == IF line # "" THEN elapsed + wait + LINE_SLEEP
                     ELSE elapsed + READ_TIMEOUT
          IN  /\ line = "" => wait = READ_TIMEOUT
              /\ response_buffer' = buffer
              /\ elapsed' = now
              /\ IF line # "" /\ IsTerminal(decoded_line)
                 THEN /\ SendReturn([ok |-> IsAck(decoded_line),
                                     response |-> decoded_line])
                      /\ lastEnd' = "line"
                 ELSE IF TimedOut(now, timeout)
                 THEN /\ SendReturn([ok |-> FALSE,
                                     response |-> strip(decode_ignore(buffer))])
                      /\ lastEnd' = "timeout"
                 ELSE UNCHANGED << pc, ret, log, lastEnd >>
    /\ UNCHANGED << exitReason, SERIAL_PORT, letters, serVars, initVars, msgVars,
                    caller, command, timeout, slept, wire >>
    /\ UNCHANGED halted

\* ser.readline() raises
SendReadFails ==
    /\ pc = "send_read"
    /\ SendReturn(ExceptReturn)
    /\ lastEnd' = "exception"
    /\ UNCHANGED << exitReason, SERIAL_PORT, letters, serVars, initVars, msgVars,
                    caller, command, timeout, elapsed, response_buffer, slept, wire >>
    /\ UNCHANGED halted

\* ------------------------------------------------------------- init_grbl
init_commands ==
    << "G21", "G90", "G17", "G94", "M05 S1000", "M03", "M05",
       "G10 P0 L20 X0", "G10 P0 L20 Y0", "G0 Z5", "G0 X0 Y0", "G0 Z0" >>

\* variant: the loop goes on after a failed setup command
InitNeverBreaks(ok) == FALSE

\* "if not success: ... break"
InitBreaks(ok) == ~ok

\* variant: on_message goes on to compile whatever init_grbl returned
InitReturnHandlerGoesOn(result) ==
    /\ initResult' = IF result THEN "True" ELSE "False"
    /\ IF ctx = "startup"
       THEN /\ pc' = IF result THEN "mqtt" ELSE "exited"
            /\ exitReason' = IF result THEN exitReason ELSE "grbl"
            /\ UNCHANGED hret
       ELSE /\ pc' = "compile"
            /\ UNCHANGED << hret, exitReason >>

\* init_grbl returns result: to __main__, which exits on False, or to
\* on_message, which drops the payload on False
InitReturn(result) ==
    /\ initResult' = IF result THEN "True" ELSE "False"
    /\ IF ctx = "startup"
       THEN /\ pc' = IF result THEN "mqtt" ELSE "exited"
            /\ exitReason' = IF result THEN exitReason ELSE "grbl"
            /\ UNCHANGED hret
       ELSE /\ pc' = IF result THEN "compile" ELSE "idle"
            /\ hret' = IF result THEN hret ELSE "init_failed"
            /\ UNCHANGED exitReason

\* "if SERIAL_PORT is None: return True"
InitNoPort ==
    /\ pc = "init"
    /\ SERIAL_PORT = "None"
    /\ InitReturn(TRUE)
    /\ UNCHANGED << SERIAL_PORT, letters, serVars, ctx, initIdx,
                    text_payload, gcode_lines, idx, success, sendVars, histVars >>
    /\ UNCHANGED halted

\* serial.Serial(...), time.sleep(2) and ser.flushInput() all succeed
InitOpen ==
    /\ pc = "init"
    /\ SERIAL_PORT # "None"
    /\ ser' = "Open"
    /\ port' = "open"
    /\ initIdx' = 1
    /\ pc' = "init_loop"
    /\ UNCHANGED << exitReason, SERIAL_PORT, letters, ctx, initResult, msgVars,
                    sendVars, histVars >>
    /\ UNCHANGED halted

\* "except serial.SerialException": raised by serial.Serial(...) with no
\* port opened, or by ser.flushInput() on the port just opened
InitSerialException ==
    /\ pc = "init"
    /\ SERIAL_PORT # "None"
    /\ \E opened \in BOOLEAN : port' = IF opened THEN "open" ELSE port
    /\ ser' = "None"
    /\ InitReturn(TRUE)
    /\ UNCHANGED << SERIAL_PORT, letters, ctx, initIdx,
                    text_payload, gcode_lines, idx, success, sendVars, histVars >>
    /\ UNCHANGED halted

\* "except Exception": any other error of the same statements; the port is
\* closed if it had been opened
InitOtherException ==
    /\ pc = "init"
    /\ SERIAL_PORT # "None"
    /\ \E opened \in BOOLEAN : port' = IF opened THEN "closed" ELSE port
    /\ ser' = "None"
    /\ InitReturn(FALSE)
    /\ UNCHANGED << SERIAL_PORT, letters, ctx, initIdx,
                    text_payload, gcode_lines, idx, success, sendVars, histVars >>
    /\ UNCHANGED halted

\* "for cmd in init_commands": the next send, or the return after the last
InitLoop ==
    /\ pc = "init_loop"
    /\ IF initIdx <= Len(init_commands)
       THEN /\ CallSend(init_commands[initIdx], INIT_TIMEOUT, "init")
            /\ UNCHANGED << exitReason, initResult, hret >>
       ELSE /\ InitReturn(TRUE)
            /\ UNCHANGED << caller, command, timeout, log >>
    /\ UNCHANGED << SERIAL_PORT, letters, serVars, ctx, initIdx,
                    text_payload, gcode_lines, idx, success,
                    elapsed, response_buffer, slept, ret, wire, lastEnd >>
    /\ UNCHANGED halted

\* the test of the result of a setup command: on failure close the port,
\* forget it and return False
InitAfterSend ==
    /\ pc = "init_ret"
    /\ IF InitBreaks(ret.ok)
       THEN /\ port' = "closed"
            /\ ser' = "None"
            /\ InitReturn(FALSE)
            /\ UNCHANGED initIdx
       ELSE /\ initIdx' = initIdx + 1
            /\ pc' = "init_loop"
            /\ UNCHANGED << serVars, exitReason, initResult, hret >>
    /\ Discard
    /\ UNCHANGED << SERIAL_PORT, letters, ctx, text_payload, gcode_lines, idx,
                    success, caller, command, timeout, slept, histVars >>
    /\ UNCHANGED halted

\* ------------------------------------------------------------- __main__
\* client.connect(...): on an error the port is closed and the process exits
MqttConnect ==
    /\ pc = "mqtt"
    /\ \E connected \in BOOLEAN :
          IF connected
          THEN /\ pc' = "idle"
               /\ UNCHANGED << exitReason, port >>
          ELSE /\ pc' = "exited"
               /\ exitReason' = "mqtt"
               /\ port' = IF SerIsOpen(ser) THEN "closed" ELSE port
    /\ UNCHANGED << SERIAL_PORT, letters, ser, initVars, msgVars, sendVars, histVars >>
    /\ UNCHANGED halted

\* ------------------------------------------------------------ on_message
\* "G1 F500.0 X0.00 Y-8.00"
post_cmd == "G1 F500.0 X0.00 Y-8.00"

\* variant: the loop goes on after a failed command
ProgNeverBreaks(ok) == FALSE

\* "if not success: ... break"
ProgBreaks(ok) == ~ok

\* variant: the trailing command is sent whatever the text ends with
NeedsPostCmdAlways(text) == TRUE

\* "if not text_payload.endswith('\n')"
NeedsPostCmd(text) == ~endswith(text, "\n")

\* a payload arrives: decode it, and initialise again if the port is not open
OnMessage ==
    /\ pc = "idle"
    /\ \E payload \in Payloads :
          /\ gcode_lines' = << >>
          /\ idx' = 0
          /\ success' = TRUE
          /\ log' = << >>
          /\ wire' = << >>
          /\ initIdx' = 0
          /\ initResult' = "none"
          /\ caller' = "none"
          /\ command' = ""
          /\ timeout' = 0
          /\ slept' = 0
          /\ IF ~decodable(payload)
             THEN /\ text_payload' = ""
                  /\ hret' = "undecodable"
                  /\ pc' = "idle"
                  /\ UNCHANGED ctx
             ELSE /\ text_payload' = decode_ignore(payload)
                  /\ hret' = "none"
                  /\ IF ~SerIsOpen(ser)
                     THEN /\ pc' = "init"
                          /\ ctx' = "message"
                     ELSE /\ pc' = "compile"
                          /\ UNCHANGED ctx
    /\ UNCHANGED << exitReason, SERIAL_PORT, letters, serVars,
                    elapsed, response_buffer, ret, lastEnd >>
    /\ halted' = (hret = "failed")

\* gcode_output = textToGcode(...); return when it is empty
Compile ==
    /\ pc = "compile"
    /\ LET gcode_output == textToGcode(text_payload, letters, LINE_LENGTH,
                                       LINE_SPACING, PADDING)
       IN  IF DOMAIN letters = {} \/ gcode_output = << >>
           THEN /\ hret' = IF DOMAIN letters = {} THEN "no_letters" ELSE "empty"
                /\ pc' = "idle"
                /\ UNCHANGED << gcode_lines, idx >>
           ELSE /\ gcode_lines' = gcode_output
                /\ idx' = 1
                /\ pc' = "prog_loop"
                /\ UNCHANGED hret
    /\ success' = TRUE
    /\ UNCHANGED << exitReason, SERIAL_PORT, letters, serVars, initVars,
                    text_payload, sendVars, histVars >>
    /\ UNCHANGED halted

\* "for line in gcode_lines": send the next non-empty line
ProgLoop ==
    /\ pc = "prog_loop"
    /\ IF idx <= Len(gcode_lines)
       THEN LET line == strip(gcode_lines[idx])
            IN  IF line # ""
                THEN /\ CallSend(line, DEFAULT_TIMEOUT, "prog")
                     /\ UNCHANGED idx
                ELSE /\ idx' = idx + 1
                     /\ UNCHANGED << pc, caller, command, timeout, log >>
       ELSE /\ pc' = "prog_end"
            /\ UNCHANGED << idx, caller, command, timeout, log >>
    /\ UNCHANGED << exitReason, SERIAL_PORT, letters, serVars, initVars,
                    text_payload, gcode_lines, success, hret,
                    elapsed, response_buffer, slept, ret, wire, lastEnd >>
    /\ UNCHANGED halted

\* "success, response = send_gcode(line)" and the break on failure
ProgAfterSend ==
    /\ pc = "prog_ret"
    /\ success' = ret.ok
    /\ IF ProgBreaks(ret.ok)
       THEN /\ pc' = "prog_end"
            /\ UNCHANGED idx
       ELSE /\ idx' = idx + 1
            /\ pc' = "prog_loop"
    /\ Discard
    /\ UNCHANGED << exitReason, SERIAL_PORT, letters, serVars, initVars,
                    text_payload, gcode_lines, hret, caller, command, timeout,
                    slept, histVars >>
    /\ UNCHANGED halted

\* variant: a program stopped by a failed command ends the process
ProgEndExitsOnFailure ==
    /\ pc = "prog_end"
    /\ IF success /\ NeedsPostCmd(text_payload)
       THEN /\ CallSend(post_cmd, DEFAULT_TIMEOUT, "post")
            /\ UNCHANGED hret
       ELSE /\ pc' = IF success THEN "idle" ELSE "exited"
            /\ hret' = IF success THEN "done" ELSE "failed"
            /\ UNCHANGED << caller, command, timeout, log >>
    /\ UNCHANGED << exitReason, SERIAL_PORT, letters, serVars, initVars,
                    text_payload, gcode_lines, idx, success,
                    elapsed, response_buffer, slept, ret, wire, lastEnd >>
    /\ UNCHANGED halted

\* after the loop: "if success" and the conditional trailing command
ProgEnd ==
    /\ pc = "prog_end"
    /\ IF success /\ NeedsPostCmd(text_payload)
       THEN /\ CallSend(post_cmd, DEFAULT_TIMEOUT, "post")
            /\ UNCHANGED hret
       ELSE /\ pc' = "idle"
            /\ hret' = IF success THEN "done" ELSE "failed"
            /\ UNCHANGED << caller, command, timeout, log >>
    /\ UNCHANGED << exitReason, SERIAL_PORT, letters, serVars, initVars,
                    text_payload, gcode_lines, idx, success,
                    elapsed, response_buffer, slept, ret, wire, lastEnd >>
    /\ UNCHANGED halted

\* the trailing command has returned; time.sleep(6); end of the handler
PostAfterSend ==
    /\ pc = "post_ret"
    /\ pc' = "idle"
    /\ hret' = "done"
    /\ Discard
    /\ UNCHANGED << exitReason, SERIAL_PORT, letters, serVars, initVars,
                    text_payload, gcode_lines, idx, success, caller, command,
                    timeout, slept, histVars >>
    /\ UNCHANGED halted

\* ------------------------------------------------------------------ system
Next ==
    \/ LoadConfig
    \/ LoadLetters
    \/ InitNoPort
    \/ InitOpen
    \/ InitSerialException
    \/ InitOtherException
    \/ InitLoop
    \/ InitAfterSend
    \/ MqttConnect
    \/ OnMessage
    \/ Compile
    \/ ProgLoop
    \/ ProgAfterSend
    \/ ProgEnd
    \/ PostAfterSend
    \/ SendBypass
    \/ SendWrite
    \/ SendWriteFails
    \/ SendRead
    \/ SendReadFails

Spec == Init /\ [][Next]_vars

\* ------------------------------------------------------ the compiler alone
\* the instructions a template line can hold
InstrChoices == {Instr("move", 1, 0), Instr("write", 0, 0), Instr("write", 5, 10)}

\* the templates of at most n instructions; the empty one is a file without
\* a valid line
RECURSIVE Glyphs(_)
Glyphs(n) ==
    IF n = 0 THEN {<< >>}
    ELSE LET shorter == Glyphs(n - 1)
         IN  shorter \cup {Append(g, i) : g \in shorter, i \in InstrChoices}

\* the glyph tables: the template of "A" is varied, the rest is as loaded
GlyphTables == {[readLetters EXCEPT !["A"] = Letter(g)] : g \in Glyphs(MaxInstrs)}

\* the characters of the texts: two glyphs with strokes, the space, the line
\* break, and a character that has no template
CompAlphabet == {"A", "I", " ", "\n", "?"}

RECURSIVE CompTexts(_)
CompTexts(n) ==
    IF n = 0 THEN {""}
    ELSE LET shorter == CompTexts(n - 1)
         IN  shorter \cup {t \o c : t \in shorter, c \in CompAlphabet}

\* on_message is about to compile some text against some glyph table
CompInit ==
    /\ pc = "compile"
    /\ exitReason = ""
    /\ SERIAL_PORT = "None"
    /\ letters \in GlyphTables
    /\ ser = "None"
    /\ port = "absent"
    /\ ctx = "message"
    /\ initIdx = 0
    /\ initResult = "True"
    /\ text_payload \in CompTexts(MaxCompText)
    /\ gcode_lines = << >>
    /\ idx = 0
    /\ success = TRUE
    /\ hret = "none"
    /\ caller = "none"
    /\ command = ""
    /\ timeout = 0
    /\ elapsed = 0
    /\ response_buffer = ""
    /\ slept = 0
    /\ ret = NoRet
    /\ log = << >>
    /\ wire = << >>
    /\ lastEnd = "none"
    /\ halted = FALSE

\* textToGcode applied to every such text and table
CompSpec == CompInit /\ [][Compile]_vars

\* ------------------------------------------------------- send_gcode alone
\* send_gcode is entered for the first command of its caller: the first
\* setup command at start-up, or the first command of the program of a
\* payload, with the port open or without a port
SendInit ==
    /\ pc = "send"
    /\ exitReason = ""
    /\ letters = readLetters
    /\ success = TRUE
    /\ hret = "none"
    /\ elapsed = 0
    /\ response_buffer = ""
    /\ slept = 0
    /\ ret = NoRet
    /\ wire = << >>
    /\ halted = FALSE
    /\ initIdx \in {0, 1}
    /\ IF initIdx = 1
       THEN /\ SERIAL_PORT = "/dev/ttyUSB0"
            /\ ser = "Open"
            /\ port = "open"
            /\ ctx = "startup"
            /\ initResult = "none"
            /\ text_payload = ""
            /\ gcode_lines = << >>
            /\ idx = 0
            /\ caller = "init"
            /\ command = init_commands[1]
            /\ timeout = INIT_TIMEOUT
            /\ lastEnd = "none"
       ELSE /\ text_payload \in Texts(MaxText)
            /\ gcode_lines = textToGcode(text_payload, letters, LINE_LENGTH,
                                         LINE_SPACING, PADDING)
            /\ gcode_lines # << >>
            /\ idx = 1
            /\ caller = "prog"
            /\ command = strip(gcode_lines[1])
            /\ timeout = DEFAULT_TIMEOUT
            /\ \E open \in BOOLEAN :
                  IF open
                  THEN /\ SERIAL_PORT = "/dev/ttyUSB0"
                       /\ ser = "Open"
                       /\ port = "open"
                       /\ ctx = "startup"
                       /\ initResult = "none"
                       /\ lastEnd = "line"
                  ELSE /\ SERIAL_PORT = "None"
                       /\ ser = "None"
                       /\ port = "absent"
                       /\ ctx = "message"
                       /\ initResult = "True"
                       /\ lastEnd = "none"
    /\ log = << [cmd |-> command, from |-> caller, ok |-> "pending"] >>

\* the steps of send_gcode
SendNext ==
    \/ SendBypass
    \/ SendWrite
    \/ SendWriteFails
    \/ SendRead
    \/ SendReadFails

\* one call of send_gcode in which every turn of the read loop comes to its
\* end: readline() returns after at most its timeout, or raises
SendSpec == SendInit /\ [][SendNext]_vars /\ WF_vars(SendRead)

\* ------------------------------------------------------------ properties
\* the send_gcode calls of the running handler, by caller
InitSent == SelectSeq(log, LAMBDA e : e.from = "init")
ProgSent == SelectSeq(log, LAMBDA e : e.from = "prog")
PostSent == SelectSeq(log, LAMBDA e : e.from = "post")

\* send_gcode has just returned to its caller
Returned == pc \in {"init_ret", "prog_ret", "post_ret"}

\* a step that writes a command to the device
WriteStep == pc = "send" /\ wire' = Append(wire, command \o "\n")

\* a turn of the read loop of send_gcode in which readline() did not raise
ReadStep == pc = "send_read" /\ lastEnd' # "exception"

\* the bytes readline() returned in a ReadStep, and the line they decode to
LineRead == SubSeq(response_buffer', Len(response_buffer) + 1, Len(response_buffer'))
DecodedRead == strip(decode_ignore(LineRead))

\* C1: the commands of a program are passed to send_gcode in the order the
\* compiler produced them, none skipped, and once a send has returned
\* not-acknowledged no later command of that program is sent.
C1_InOrderUntilFailure ==
    /\ Len(ProgSent) <= Len(gcode_lines)
    /\ \A i \in 1 .. Len(ProgSent) : ProgSent[i].cmd = gcode_lines[i]
    /\ \A i \in 1 .. Len(ProgSent) - 1 : ProgSent[i].ok = "True"
    /\ \A i \in 1 .. Len(log) :
          log[i].from = "prog" /\ log[i].ok = "False" => i = Len(log)

C1_Witness ==
    /\ pc = "idle"
    /\ hret = "failed"
    /\ Len(ProgSent) >= 2
    /\ Len(ProgSent) < Len(gcode_lines)
    /\ ProgSent[Len(ProgSent)].ok = "False"

C3_TerminalLines ==
    [][ReadStep =>
          \A decoded_line \in {DecodedRead} :
              /\ decoded_line = "ok" =>
                    Returned' /\ ret' = [ok |-> TRUE, response |-> "ok"]
              /\ startswith(decoded_line, "error:") =>
                    Returned' /\ ret' = [ok |-> FALSE, response |-> decoded_line]
              /\ decoded_line # "ok" /\ ~startswith(decoded_line, "error:") =>
                    /\ response_buffer' = response_buffer \o LineRead
                    /\ Returned' => ~ret'.ok /\ elapsed' > timeout
              /\ Returned' /\ ret'.ok => decoded_line = "ok"]_vars

C3_Witness ==
    /\ Returned
    /\ lastEnd = "line"
    /\ ret = [ok |-> TRUE, response |-> "ok"]
    /\ response_buffer = "okay error:9\r\n o~k\n"

\* C4: a wait in which no terminal line arrives ends in a failure, and the
\* timeout failure is returned only once the time waited since the write
\* exceeds the timeout: the loop goes on only while it does not, and every
\* turn of the loop takes time.
C4_TimeoutBoundary ==
    [][ReadStep =>
          /\ Returned' /\ lastEnd' = "timeout" => ~ret'.ok /\ elapsed' > timeout
          /\ Returned' /\ lastEnd' # "line" => ~ret'.ok
          /\ ~Returned' => elapsed' <= timeout
          /\ elapsed' > elapsed]_vars

C4_Witness ==
    /\ Returned
    /\ lastEnd = "timeout"
    /\ response_buffer = ""
    /\ elapsed = timeout + READ_TIMEOUT
    /\ ret = [ok |-> FALSE, response |-> ""]

\* C5: while the port is not open (none configured, or the connection
\* attempt degraded to bypass) init_grbl has reported success without
\* sending a setup command, every send_gcode returns success at once and
\* writes nothing, and every program runs to its last command.
C5_Bypass ==
    [][/\ SERIAL_PORT = "None" /\ pc \notin {"config", "letters"} =>
             ~SerIsOpen(ser) /\ initResult # "False"
       /\ ~SerIsOpen(ser) /\ initResult = "True" => InitSent = << >>
       /\ pc = "send" /\ ~SerIsOpen(ser) =>
             /\ Returned'
             /\ ret' = [ok |-> TRUE, response |-> "Printed_to_console"]
             /\ wire' = wire
       /\ ~SerIsOpen(ser) => wire = << >> \/ initResult = "False"
       /\ pc = "prog_end" /\ ~SerIsOpen(ser) =>
             /\ success
             /\ Len(ProgSent) = Len(gcode_lines)
             /\ \A i \in 1 .. Len(ProgSent) : ProgSent[i].ok = "True"]_vars

C5_Witness ==
    /\ pc = "idle"
    /\ hret = "done"
    /\ SERIAL_PORT # "None"
    /\ ~SerIsOpen(ser)
    /\ initResult = "True"
    /\ Len(ProgSent) >= 5
    /\ Len(ProgSent) = Len(gcode_lines)

\* C6: the setup commands are sent in their fixed order; when one of them is
\* not acknowledged none after it is sent, the port is closed and forgotten,
\* and init_grbl returns False to its caller.
C6_InitAbort ==
    /\ Len(InitSent) <= Len(init_commands)
    /\ \A i \in 1 .. Len(InitSent) : InitSent[i].cmd = init_commands[i]
    /\ \A i \in 1 .. Len(InitSent) - 1 : InitSent[i].ok = "True"
    /\ \A i \in 1 .. Len(log) :
          log[i].from = "init" /\ log[i].ok = "False" =>
             /\ i = Len(log)
             /\ pc # "init_ret" =>
                   /\ initResult = "False"
                   /\ ser = "None"
                   /\ port = "closed"
                   /\ pc = IF ctx = "startup" THEN "exited" ELSE "idle"

C6_Witness ==
    /\ Len(InitSent) = 3
    /\ InitSent[3].ok = "False"
    /\ initResult = "False"
    /\ port = "closed"
    /\ ser = "None"

\* C7 as stated: when opening the connection fails (init_grbl has returned
\* with a port configured and no setup command sent) the session is in
\* bypass and init_grbl has returned True.
C7_Original ==
    SERIAL_PORT # "None" /\ initResult # "none" /\ InitSent = << >> /\ ~SerIsOpen(ser)
        => initResult = "True"

\* C8 as stated: when an I/O error is raised inside send_gcode while the port
\* is open, the session is in bypass when send_gcode returns.
C8_Original ==
    Returned /\ ret = ExceptReturn => ~SerIsOpen(ser)

\* C9 as stated: after a device protocol error or a connection error, at
\* start-up or during a payload, the process is still running.
C9_Original ==
    initResult = "False" \/ (\E i \in 1 .. Len(log) : log[i].ok = "False")
        => pc # "exited"

\* the program of the payload was executed and every command acknowledged
ProgCompleted ==
    /\ Len(ProgSent) = Len(gcode_lines)
    /\ \A i \in 1 .. Len(ProgSent) : ProgSent[i].ok = "True"

\* C10 as stated: at the end of the handler of a payload that was compiled,
\* one trailing command has been sent, after the program, if the text does
\* not end in a line break and no command failed; none otherwise.
C10_Original ==
    pc = "idle" /\ hret \in {"empty", "failed", "done"} =>
        IF ~endswith(text_payload, "\n") /\ ProgCompleted
        THEN Len(PostSent) = 1 /\ log[Len(log)].from = "post"
        ELSE PostSent = << >>

\* C10 as amended: the trailing command is sent once, after the last command
\* of the program, exactly for the payloads whose text does not end in a line
\* break and whose program is not empty and completed with every command
\* acknowledged; for a text ending in a line break, an empty program or a
\* program with a failed command none is sent.
C10_TrailingCommand ==
    /\ Len(PostSent) <= 1
    /\ PostSent # << >> =>
          /\ log[Len(log)] = PostSent[1]
          /\ PostSent[1].cmd = "G1 F500.0 X0.00 Y-8.00"
          /\ ~endswith(text_payload, "\n")
          /\ gcode_lines # << >>
          /\ ProgCompleted
    /\ pc = "idle" /\ hret \in {"empty", "failed", "done"} =>
          (PostSent # << >>) =
             (~endswith(text_payload, "\n") /\ gcode_lines # << >> /\ ProgCompleted)

C10_Witness ==
    /\ pc = "idle"
    /\ hret = "done"
    /\ SerIsOpen(ser)
    /\ Len(PostSent) = 1
    /\ PostSent[1].ok = "True"
    /\ Len(ProgSent) >= 5

\* ------------------------------------------------- properties of programs
\* the compilation of the payload has returned (under CompSpec)
Compiled == pc \in {"prog_loop", "idle"}

\* the kinds of command of a Motion Program
IsDraw(cmd) == startswith(cmd, "G1 ")
IsRapid(cmd) == startswith(cmd, "G0 ")
IsAdvance(cmd) == startswith(cmd, "G0 F1000.0 ")
IsPenDown(cmd) == cmd = "M03 S150"
IsPenUp(cmd) == startswith(cmd, "M05")

\* the compiler's locals after the first k characters of the payload
StateAfter(k) ==
    textToGcodeState(SubSeq(text_payload, 1, k), letters, LINE_LENGTH,
                     LINE_SPACING, PADDING)

\* C11: the compiler's pen flag is up after every character of the text, so
\* after the last instruction of every glyph and at the end of the program,
\* and in the program every pen-down command is followed by a pen-up command.
C11_PenUpAfterGlyphs ==
    Compiled =>
        /\ \A k \in 0 .. Len(text_payload) : ~StateAfter(k).pen_is_down
        /\ \A i \in 1 .. Len(gcode_lines) :
              IsPenDown(gcode_lines[i]) \/ gcode_lines[i] = "M04" =>
                 \E j \in (i + 1) .. Len(gcode_lines) : IsPenUp(gcode_lines[j])

C11_Witness ==
    /\ pc = "prog_loop"
    /\ text_payload = "AI"
    /\ letters["A"].instructions = << Instr("move", 1, 0), Instr("write", 5, 10) >>
    /\ gcode_lines[4] = "M05 F1500.0"

\* every maximal run of draw commands of the program has exactly one pen-down
\* command right before it and exactly one pen-up command right after it
RunsBracketed(prog) ==
    \A i \in 1 .. Len(prog) :
        IsDraw(prog[i]) =>
            /\ i = 1 \/ ~IsDraw(prog[i - 1]) =>
                  /\ i > 1
                  /\ IsPenDown(prog[i - 1])
                  /\ i > 2 => ~IsPenDown(prog[i - 2])
            /\ i = Len(prog) \/ ~IsDraw(prog[i + 1]) =>
                  /\ i < Len(prog)
                  /\ IsPenUp(prog[i + 1])
                  /\ i + 1 < Len(prog) => ~IsPenUp(prog[i + 2])

\* C12 as stated: every draw run is bracketed by one pen-down and one pen-up
\* command, and the pen commands pair 1:1 with the draw runs: every pen-down
\* command opens a draw run and every pen-up command closes one.
C12_Original ==
    Compiled =>
        /\ RunsBracketed(gcode_lines)
        /\ \A i \in 1 .. Len(gcode_lines) :
              /\ IsPenDown(gcode_lines[i]) =>
                    i < Len(gcode_lines) /\ IsDraw(gcode_lines[i + 1])
              /\ IsPenUp(gcode_lines[i]) => i > 1 /\ IsDraw(gcode_lines[i - 1])

\* C12 as amended: every draw run is bracketed by one pen-down and one pen-up
\* command; every pen-down command opens a draw run and every pen-up command
\* closes one, except the pen-up of the line-separator pair "M04", "M05" that
\* is emitted at each line break and encloses no draw.
C12_DrawRunsBracketed ==
    Compiled =>
        /\ RunsBracketed(gcode_lines)
        /\ \A i \in 1 .. Len(gcode_lines) :
              /\ IsPenDown(gcode_lines[i]) =>
                    i < Len(gcode_lines) /\ IsDraw(gcode_lines[i + 1])
              /\ IsPenUp(gcode_lines[i]) =>
                    /\ i > 1
                    /\ IsDraw(gcode_lines[i - 1])
                          \/ (gcode_lines[i - 1] = "M04" /\ gcode_lines[i] = "M05")
              /\ gcode_lines[i] = "M04" =>
                    /\ i < Len(gcode_lines) /\ gcode_lines[i + 1] = "M05"
                    /\ i > 1 /\ IsRapid(gcode_lines[i - 1])

C12_Witness ==
    /\ pc = "prog_loop"
    /\ text_payload = "A\nA"
    /\ letters["A"].instructions = << Instr("write", 0, 0), Instr("write", 5, 10) >>
    /\ SubSeq(gcode_lines, 6, 9) = << "G0 F1500 X0.00 Y-8.00", "M04", "M05", "M03 S150" >>

\* the number of rapid advance commands of a program
RECURSIVE Advances(_)
Advances(prog) ==
    IF Len(prog) = 0 THEN 0
    ELSE (IF IsAdvance(Head(prog)) THEN 1 ELSE 0) + Advances(Tail(prog))

\* the number of characters of the text that are in the glyph table
RECURSIVE Resolved(_, _)
Resolved(text, table) ==
    IF Len(text) = 0 THEN 0
    ELSE (IF Head(text) \in DOMAIN table THEN 1 ELSE 0) + Resolved(Tail(text), table)

\* the number of characters of the text whose glyph has instructions
RECURSIVE Stroked(_, _)
Stroked(text, table) ==
    IF Len(text) = 0 THEN 0
    ELSE (IF Head(text) \in DOMAIN table /\ Len(table[Head(text)].instructions) > 0
          THEN 1 ELSE 0) + Stroked(Tail(text), table)

\* the text has no line break
OneLine(text) == Len(split(text)) = 1

\* C13 as stated: for a text without line breaks the program has as many
\* rapid advance commands as the text has characters found in the glyph
\* table, those whose glyph has no instructions included.
C13_Original ==
    Compiled /\ OneLine(text_payload) =>
        Advances(gcode_lines) = Resolved(text_payload, letters)

\* C13 as amended: for a text without line breaks the program has as many
\* rapid advance commands as the text has characters found in the glyph
\* table whose glyph has at least one instruction; a character whose glyph
\* has no instructions, such as the space, emits no command.
C13_AdvancePerStrokedGlyph ==
    Compiled /\ OneLine(text_payload) =>
        /\ Advances(gcode_lines) = Stroked(text_payload, letters)
        /\ Stroked(text_payload, letters) = 0 => gcode_lines = << >>

C13_Witness ==
    /\ pc = "prog_loop"
    /\ text_payload = "A I"
    /\ Len(letters["A"].instructions) = 1
    /\ Advances(gcode_lines) = 2
    /\ Resolved(text_payload, letters) = 3

\* the text with the characters that have no glyph removed
RECURSIVE Present(_, _)
Present(text, table) ==
    IF Len(text) = 0 THEN ""
    ELSE (IF Head(text) \in DOMAIN table THEN Head(text) ELSE "")
         \o Present(Tail(text), table)

\* C14: a character absent from the glyph table emits no command and leaves
\* cursor and pen unchanged: the program compiled from a text is the program
\* of that text without its absent characters, and after every prefix of
\* the text the compiler state is the state after the same prefix without
\* its absent characters.
C14_AbsentSkipped ==
    Compiled =>
        /\ gcode_lines = textToGcode(Present(text_payload, letters), letters,
                                     LINE_LENGTH, LINE_SPACING, PADDING)
        /\ \A k \in 1..Len(text_payload) :
              StateAfter(k) =
                  textToGcodeState(Present(SubSeq(text_payload, 1, k), letters),
                                   letters, LINE_LENGTH, LINE_SPACING, PADDING)

C14_Witness ==
    /\ pc = "prog_loop"
    /\ text_payload = "A?A"
    /\ Len(letters["A"].instructions) = 1
    /\ Present(text_payload, letters) = "AA"
    /\ Advances(gcode_lines) = 2

\* the number of instructions of the glyphs of a text
RECURSIVE InstrCount(_, _)
InstrCount(text, table) ==
    IF Len(text) = 0 THEN 0
    ELSE (IF Head(text) \in DOMAIN table
          THEN Len(table[Head(text)].instructions) ELSE 0)
         + InstrCount(Tail(text), table)

\* the number of maximal runs of "write" instructions of a glyph
RECURSIVE DrawRuns(_, _)
DrawRuns(instrs, inRun) ==
    IF Len(instrs) = 0 THEN 0
    ELSE IF Head(instrs).type = "move" THEN DrawRuns(Tail(instrs), FALSE)
    ELSE (IF inRun THEN 0 ELSE 1) + DrawRuns(Tail(instrs), TRUE)

\* the number of draw runs of the glyphs of a text
RECURSIVE RunCount(_, _)
RunCount(text, table) ==
    IF Len(text) = 0 THEN 0
    ELSE (IF Head(text) \in DOMAIN table
          THEN DrawRuns(table[Head(text)].instructions, FALSE) ELSE 0)
         + RunCount(Tail(text), table)

\* the commands of the program sent so far by the running handler
ProgCmds == [i \in 1 .. Len(ProgSent) |-> ProgSent[i].cmd]

\* a payload of two glyphs with instructions was handled to its end with no
\* device configured
BypassTwoGlyphsDone ==
    /\ SERIAL_PORT = "None"
    /\ pc = "idle"
    /\ hret \in {"failed", "done"}
    /\ Len(text_payload) = 2
    /\ Stroked(text_payload, letters) = 2

\* C15 as stated: with no device configured the program of a text of two
\* glyphs with instructions completes, and the number of commands sent is
\* the number of instructions of the two glyphs plus the number of advance
\* commands.
C15_Original ==
    BypassTwoGlyphsDone =>
        /\ hret = "done"
        /\ ProgCompleted
        /\ Len(ProgSent) = InstrCount(text_payload, letters) + Advances(ProgCmds)

\* C15 as amended: with no device configured the program of a text of two
\* glyphs with instructions completes, and the number of its commands sent
\* is the number of instructions of the two glyphs, plus one advance command
\* per glyph, plus one pen-down and one pen-up command per draw run of the
\* glyphs; the trailing command is sent after them.
C15_BypassCommandCount ==
    BypassTwoGlyphsDone =>
        /\ hret = "done"
        /\ ProgCompleted
        /\ Advances(ProgCmds) = 2
        /\ Len(ProgSent) = InstrCount(text_payload, letters) + Advances(ProgCmds)
                           + 2 * RunCount(text_payload, letters)
        /\ Len(PostSent) = 1
        /\ wire = << >>

C15_Witness ==
    /\ BypassTwoGlyphsDone
    /\ text_payload = "AA"
    /\ InstrCount(text_payload, letters) = 4
    /\ Len(ProgSent) = 10

\* the handler of the current payload has compiled its text
HandlerCompiled ==
    \/ pc \in {"prog_loop", "prog_ret", "prog_end", "post_ret"}
    \/ pc \in {"send", "send_read"} /\ caller \in {"prog", "post"}
    \/ pc = "idle" /\ hret \in {"empty", "failed", "done"}

\* the program of a text compiled from cursor (0,0) with the pen up against
\* the glyph table read at startup
FromOrigin(text) ==
    LineLoop([output |-> << >>, current_x |-> 0, current_y |-> 0,
              pen_is_down |-> FALSE],
             split(text), TRUE, readLetters, LINE_SPACING, PADDING).output

DrawOnly(instrs) ==
    /\ Len(instrs) > 0
    /\ \A i \in 1 .. Len(instrs) : instrs[i].type = "write"

\* what a draw-only glyph compiles to with the cursor at (cx, cy)
DrawOnlyProgram(letter_data, cx, cy) ==
    << "M03 S150" >>
    \o [i \in 1 .. Len(letter_data.instructions) |->
          "G1 F1500.0 X" \o Fmt2(cx + letter_data.instructions[i].x)
                 \o " Y" \o Fmt2(cy + letter_data.instructions[i].y)]
    \o << "M05 F1500.0",
          "G0 F1000.0 X" \o Fmt2(cx + letter_data.width + PADDING)
                 \o " Y" \o Fmt2(cy) >>

\* C17: the one-character text of a draw-only glyph compiles to exactly
\* pen-down, one draw per instruction at its coordinates, pen-up and a rapid
\* advance to x = width + padding at y = 0; after any other text the same
\* commands, offset by the cursor, are what the glyph adds to the program.
C17_DrawOnlyGlyph ==
    Compiled /\ Len(text_payload) > 0 /\ DrawOnly(letters["A"].instructions)
             /\ endswith(text_payload, "A") =>
        \A before \in {IF Len(text_payload) = 1 THEN CompilerStart
                       ELSE StateAfter(Len(text_payload) - 1)} :
            /\ Len(text_payload) = 1 =>
                  before.current_x = 0 /\ before.current_y = 0
            /\ gcode_lines = before.output
                   \o DrawOnlyProgram(letters["A"], before.current_x,
                                      before.current_y)

C17_Witness ==
    /\ pc = "prog_loop"
    /\ text_payload = "A"
    /\ letters["A"] = [instructions |-> << Instr("write", 0, 0),
                                           Instr("write", 5, 10) >>,
                       width |-> 5]
    /\ gcode_lines = << "M03 S150", "G1 F1500.0 X0.00 Y0.00",
                        "G1 F1500.0 X5.00 Y10.00", "M05 F1500.0",
                        "G0 F1000.0 X7.00 Y0.00" >>

\* the number of line breaks of a text
LineBreaks(text) == Len(split(text)) - 1

\* the number of line-advance directives of a program
RECURSIVE LineAdvances(_)
LineAdvances(prog) ==
    IF Len(prog) = 0 THEN 0
    ELSE (IF Head(prog) = "M04" THEN 1 ELSE 0) + LineAdvances(Tail(prog))

\* the i-th line-start sequence
LineStart(i) ==
    << "G0 F1500 X0.00 Y" \o Fmt2(-(i * LINE_SPACING)), "M04", "M05" >>

\* C18: a text with k line breaks compiles to a program with exactly k
\* line-start sequences; the i-th is a rapid move to (0, -i * LINE_SPACING)
\* followed by "M04" and "M05", is emitted with the pen up, right after the
\* commands of the text before the i-th line break and before every command
\* of what follows it, and leaves the cursor at (0, -i * LINE_SPACING).
C18_LineStarts ==
    Compiled =>
        /\ LineAdvances(gcode_lines) = LineBreaks(text_payload)
        /\ \A j \in 1 .. Len(text_payload) :
              SubSeq(text_payload, j, j) = "\n" =>
                 \A before \in {StateAfter(j - 1)}, after \in {StateAfter(j)} :
                    \A i \in {LineBreaks(SubSeq(text_payload, 1, j))} :
                       /\ ~before.pen_is_down
                       /\ LineAdvances(before.output) = i - 1
                       /\ after.output = before.output \o LineStart(i)
                       /\ after.current_x = 0
                       /\ after.current_y = -(i * LINE_SPACING)
                       /\ ~after.pen_is_down
                       /\ SubSeq(gcode_lines, 1, Len(after.output)) = after.output

C18_Witness ==
    /\ pc = "prog_loop"
    /\ text_payload = "A\n\n"
    /\ Len(letters["A"].instructions) = 1
    /\ LineAdvances(gcode_lines) = 2
    /\ SubSeq(gcode_lines, Len(gcode_lines) - 5, Len(gcode_lines))
          = << "G0 F1500 X0.00 Y-8.00", "M04", "M05",
               "G0 F1500 X0.00 Y-16.00", "M04", "M05" >>

\* a command of the program was not acknowledged and the handler has not
\* yet returned
ProgStopped == pc = "prog_end" /\ ~success

\* the handler has returned after a command of the program was not
\* acknowledged
ProgFailed == pc = "idle" /\ hret = "failed"

\* C19: a command of a program that is not acknowledged stops that program
\* only. No command is sent for the rest of the handler, which returns with
\* the port still open and the process running; the next payload is
\* accepted, and when its text compiles to a program the commands written
\* are those of the new program, in order from its first.
C19_FailureHaltsOnlyCurrent ==
    [][/\ pc = "prog_ret" /\ ~ret.ok => ProgStopped'
       /\ ProgStopped => ProgFailed' /\ log' = log /\ wire' = wire
       /\ ProgStopped \/ ProgFailed =>
             /\ SerIsOpen(ser) /\ exitReason = ""
             /\ PostSent = << >>
             /\ Len(ProgSent) = idx /\ ProgSent[idx].ok = "False"
       /\ ProgFailed =>
             /\ halted'
             /\ log' = << >> /\ wire' = << >>
             /\ pc' \in {"compile", "idle"}
             /\ pc' = "idle" => hret' = "undecodable"
       /\ halted /\ pc = "compile" /\ pc' = "prog_loop" =>
             idx' = 1 /\ gcode_lines' = FromOrigin(text_payload)
       /\ halted /\ WriteStep /\ caller = "prog" =>
             /\ success
             /\ command = gcode_lines[idx]
             /\ Len(wire) = idx - 1
             /\ \A i \in 1 .. idx - 1 : wire[i] = gcode_lines[i] \o "\n"]_vars

C19_Witness ==
    /\ halted
    /\ pc = "idle"
    /\ hret = "done"
    /\ text_payload = "AA"
    /\ ProgCompleted
    /\ Len(wire) = Len(gcode_lines) + 1
    /\ wire[1] = "M03 S150\n"

\* send_gcode is entered with the port open
OpenSend == pc = "send" /\ SerIsOpen(ser)

\* C20: with the port open, a send of "M04" sleeps 19 s before the command
\* is written, whether or not the write then succeeds, and a send of any
\* other command takes no sleep before its write; no sleep of that length is
\* taken anywhere else.
C20_SettleDelay ==
    [][/\ OpenSend /\ command = "M04" => slept' = M04_SLEEP
       /\ OpenSend /\ command # "M04" => slept' = 0
       /\ WriteStep /\ slept' # 0 => wire'[Len(wire')] = "M04\n"
       /\ ~OpenSend => slept' = slept \/ slept' = 0]_vars

C20_Witness ==
    /\ pc = "send_read"
    /\ caller = "prog"
    /\ command = "M04"
    /\ slept = M04_SLEEP
    /\ wire[Len(wire)] = "M04\n"
    /\ Len(wire) >= 2
    /\ gcode_lines[Len(wire)] = "M04"

\* C21: with the port open the wait for the response always ends, whatever
\* the device sends: a silent device, an answering one and one that emits
\* lines that end nothing all lead to a return of send_gcode; when no
\* exception ended it, the wait ended on the line "ok" with success, on a
\* line starting with "error:" with failure, or past the timeout with
\* failure.
C21_SendReturns ==
    /\ (pc = "send_read") ~> Returned
    /\ [][pc = "send_read" /\ Returned' /\ lastEnd' # "exception" =>
             \/ lastEnd' = "line" /\ ret'.ok /\ ret'.response = "ok"
             \/ lastEnd' = "line" /\ ~ret'.ok
                   /\ startswith(ret'.response, "error:")
             \/ lastEnd' = "timeout" /\ ~ret'.ok /\ elapsed' > timeout]_vars

C21_Witness ==
    /\ pc = "init_ret"
    /\ lastEnd = "timeout"
    /\ ~ret.ok
    /\ elapsed > INIT_TIMEOUT
    /\ response_buffer = "okay error:9\r\nokay error:9\r\nokay error:9\r\n"
                         \o "okay error:9\r\nokay error:9\r\n"

\* the pen after a replay of a program that starts with the pen up: "M03" and
\* "M04" put it down, "M05" lifts it, every other command leaves it alone
RECURSIVE PenDownAfter(_)
PenDownAfter(prog) ==
    IF Len(prog) = 0 THEN FALSE
    ELSE LET cmd == prog[Len(prog)]
         IN  IF IsPenDown(cmd) \/ cmd = "M04" THEN TRUE
             ELSE IF IsPenUp(cmd) THEN FALSE
             ELSE PenDownAfter(SubSeq(prog, 1, Len(prog) - 1))

\* C22: in the replay of a compiled program from a raised pen, every "G1"
\* draw command comes while the pen is down and every "G0" rapid move while
\* it is up.
C22_ReplayPenState ==
    Compiled =>
        \A i \in 1 .. Len(gcode_lines) :
            /\ IsDraw(gcode_lines[i]) =>
                  PenDownAfter(SubSeq(gcode_lines, 1, i - 1))
            /\ IsRapid(gcode_lines[i]) =>
                  ~PenDownAfter(SubSeq(gcode_lines, 1, i - 1))

C22_Witness ==
    /\ pc = "prog_loop"
    /\ text_payload = "I\nA"
    /\ letters["A"].instructions = << Instr("write", 5, 10), Instr("move", 1, 0) >>
    /\ SubSeq(gcode_lines, 1, 3)
          = << "G0 F1500.0 X1.00 Y0.00", "M03 S150", "G1 F1500.0 X1.00 Y10.00" >>
    /\ PenDownAfter(SubSeq(gcode_lines, 1, 2))
    /\ LineAdvances(gcode_lines) = 1
    /\ IsAdvance(gcode_lines[Len(gcode_lines)])
    /\ ~PenDownAfter(gcode_lines)

\* init_grbl is running for a payload
MsgInit ==
    /\ ctx = "message"
    /\ \/ pc \in {"init", "init_loop", "init_ret"}
       \/ pc \in {"send", "send_read"} /\ caller = "init"

\* the handler is past the connection check of a payload that it has not
\* finished
PastInit ==
    \/ pc \in {"compile", "prog_loop", "prog_ret", "prog_end", "post_ret"}
    \/ pc \in {"send", "send_read"} /\ caller \in {"prog", "post"}

\* C23: a payload that decodes and arrives while the port is not open makes
\* on_message call init_grbl before it compiles anything. When init_grbl
\* returns False the handler returns at once: the text is not compiled and
\* no command of a program and no trailing command is sent. When it returns
\* True, with the port open after the full setup sequence or without a port,
\* the text is compiled next, and its commands are written to the port when
\* it is open and printed when it is not.
C23_ReinitPerPayload ==
    [][/\ pc = "idle" /\ pc' # "idle" /\ ~SerIsOpen(ser) =>
             pc' = "init" /\ ctx' = "message" /\ initResult' = "none"
       /\ pc # "compile" /\ pc' = "compile" =>
             \/ pc = "idle" /\ SerIsOpen(ser)
             \/ MsgInit /\ initResult' = "True"
       /\ MsgInit /\ initResult' = "False" =>
             /\ pc' = "idle"
             /\ hret' = "init_failed"
             /\ ~SerIsOpen(ser')
             /\ gcode_lines' = << >>
             /\ ProgSent' = << >> /\ PostSent' = << >>
       /\ MsgInit /\ initResult' = "True" =>
             /\ pc' = "compile"
             /\ IF SerIsOpen(ser')
                THEN /\ Len(InitSent') = Len(init_commands)
                     /\ \A i \in 1 .. Len(InitSent') : InitSent'[i].ok = "True"
                ELSE InitSent' = << >>
       /\ pc = "idle" /\ hret = "init_failed" =>
             gcode_lines = << >> /\ ProgSent = << >> /\ PostSent = << >>
       /\ PastInit =>
             /\ ser' = ser
             /\ initResult \in {"none", "True"}
             /\ initResult = "none" => SerIsOpen(ser)
       /\ PastInit /\ pc = "send" =>
             IF SerIsOpen(ser)
             THEN pc' = "send_read" \/ ret' = ExceptReturn
             ELSE Returned' /\ ret' = BypassReturn /\ wire' = wire]_vars

C23_Witness ==
    /\ pc = "idle"
    /\ hret = "done"
    /\ ctx = "message"
    /\ initResult = "True"
    /\ SerIsOpen(ser)
    /\ Len(InitSent) = Len(init_commands)
    /\ ProgCompleted
    /\ Len(wire) = Len(init_commands) + Len(gcode_lines) + Len(PostSent)
    /\ Len(gcode_lines) >= 3

====
